---- MODULE Spec2Model ----
(***************************************************************************)
(* FinWise SEM stock comparison (src/src/App.js).  The file holds two      *)
(* lineages of the same component: the first one (lines 1-471, "v1") and   *)
(* the CRA version (lines 473-709, "cra").  The variable lineage says      *)
(* which of the two is running; every operator that differs between them   *)
(* takes the lineage as its first parameter.                               *)
(*                                                                         *)
(* Strings are TLA+ strings (Len, SubSeq and \o act on them).  Numbers are *)
(* exact rationals [n, d]; IEEE rounding of a quotient is not modelled.    *)
(* A Date is the number of its local calendar day (days since 1970-01-01); *)
(* the time of day and daylight saving are not modelled (the exchange's    *)
(* zone, UTC+4, has none).                                                 *)
(***************************************************************************)
EXTENDS Integers, Sequences, FiniteSets, TLC

VARIABLES lineage, pc, catFetch, prFetch, issued, textsRead, catsText,
          stockList, priceData, baseTicker, mode, customTickers,
          customTickerInput, timeframe, status, errorMsg

vars == <<lineage, pc, catFetch, prFetch, issued, textsRead, catsText,
          stockList, priceData, baseTicker, mode, customTickers,
          customTickerInput, timeframe, status, errorMsg>>

---------------------------------------------------------------------------
(* String primitives of the JavaScript runtime used by the source.         *)

Char(s, i) == SubSeq(s, i, i)

\* White space as String.prototype.trim and the regex class \s see it
\* (the characters that occur in the modelled texts).
IsSpace(c) == c \in {" ", "\t", "\n", "\r"}

RECURSIVE TrimStart(_)
TrimStart(s) ==
  IF Len(s) > 0 /\ IsSpace(Char(s, 1)) THEN TrimStart(SubSeq(s, 2, Len(s))) ELSE s

RECURSIVE TrimEnd(_)
TrimEnd(s) ==
  IF Len(s) > 0 /\ IsSpace(Char(s, Len(s))) THEN TrimEnd(SubSeq(s, 1, Len(s) - 1)) ELSE s

\* String.prototype.trim
Trim(s) == TrimEnd(TrimStart(s))

\* s.replace(/^"|"$/g, ''): one leading and one trailing quote removed.
StripQuotes(s) ==
  LET a == IF Len(s) > 0 /\ Char(s, 1) = "\"" THEN SubSeq(s, 2, Len(s)) ELSE s
  IN  IF Len(a) > 0 /\ Char(a, Len(a)) = "\"" THEN SubSeq(a, 1, Len(a) - 1) ELSE a

LowerLetters == "abcdefghijklmnopqrstuvwxyz"
UpperLetters == "ABCDEFGHIJKLMNOPQRSTUVWXYZ"

LetterIndex(alphabet, c) ==
  IF \E i \in 1..Len(alphabet) : Char(alphabet, i) = c
    THEN CHOOSE i \in 1..Len(alphabet) : Char(alphabet, i) = c
    ELSE 0

RECURSIVE MapChars(_, _, _)
MapChars(s, from, to) ==
  IF Len(s) = 0 THEN ""
  ELSE LET c == Char(s, 1)
           i == LetterIndex(from, c)
       IN  (IF i = 0 THEN c ELSE Char(to, i)) \o MapChars(SubSeq(s, 2, Len(s)), from, to)

\* String.prototype.toUpperCase / toLowerCase (ASCII letters)
ToUpperCase(s) == MapChars(s, LowerLetters, UpperLetters)
ToLowerCase(s) == MapChars(s, UpperLetters, LowerLetters)

\* String.prototype.includes
Includes(s, sub) ==
  \E i \in 1..(Len(s) - Len(sub) + 1) : SubSeq(s, i, i + Len(sub) - 1) = sub

\* s.split(c) for a one-character separator: the pieces between the
\* occurrences of c, always at least one piece.
Split(s, c) ==
  LET at == {i \in 1..Len(s) : Char(s, i) = c}
      n == Cardinality(at)
      \* the position of the k-th separator; 0 and Len(s) + 1 bracket the text
      Sep(k) == IF k = 0 THEN 0
                ELSE IF k = n + 1 THEN Len(s) + 1
                ELSE CHOOSE i \in at : Cardinality({j \in at : j <= i}) = k
  IN  [k \in 1..(n + 1) |-> SubSeq(s, Sep(k - 1) + 1, Sep(k) - 1)]

\* The helpers on sequences bind their argument once (x \in {e}) and hand
\* back a tuple, so that TLC computes a decoded text a single time.

\* Array.prototype.filter on a sequence
Filter(seq, Keep(_)) ==
  LET RECURSIVE From(_, _)
      From(s, i) == IF i > Len(s) THEN <<>>
                    ELSE (IF Keep(s[i]) THEN <<s[i]>> ELSE <<>>) \o From(s, i + 1)
  IN  CHOOSE out \in {From(s, 1) : s \in {seq}} : TRUE

\* Array.prototype.map on a sequence
Map(seq, F(_)) ==
  CHOOSE out \in {[i \in 1..Len(s) |-> F(s[i])] \o <<>> : s \in {seq}} : TRUE

\* Array.prototype.slice(0, n)
Slice0(seq, n) == SubSeq(seq, 1, IF Len(seq) < n THEN Len(seq) ELSE n)

\* Array.prototype.reverse on a copy
Reverse(seq) == [i \in 1..Len(seq) |-> seq[Len(seq) + 1 - i]]

---------------------------------------------------------------------------
(* parseCSV, both lineages.                                                *)

V1 == "v1"
CRA == "cra"

\* text.trim().split('\n').filter(line => line.trim())       (v1, line 24)
\* text.trim().split(/\r?\n/).filter(Boolean)                (cra, line 501)
StripCR(piece) ==
  IF Len(piece) > 0 /\ Char(piece, Len(piece)) = "\r"
    THEN SubSeq(piece, 1, Len(piece) - 1) ELSE piece

SplitLines(lin, text) ==
  LET pieces == Split(Trim(text), "\n")
      KeepV1(line) == Trim(line) # ""
      KeepCRA(line) == line # ""
      \* /\r?\n/ swallows a carriage return that stands right before a line feed
      crPieces == [i \in 1..Len(pieces) |->
                     IF i < Len(pieces) THEN StripCR(pieces[i]) ELSE pieces[i]]
  IN  IF lin = V1 THEN Filter(pieces, KeepV1) ELSE Filter(crPieces, KeepCRA)

\* lines[0].split(',').map(h => h.trim().replace(/^"|"$/g, ''))
CleanCell(s) == StripQuotes(Trim(s))

ParseHeaders(line) == Map(Split(line, ","), CleanCell)

\* The character loop with the quote toggle (lines 32-47, 508-518).
RECURSIVE ScanLine(_, _, _, _, _)
ScanLine(line, i, current, inQuotes, values) ==
  IF i > Len(line) THEN Append(values, CleanCell(current))
  ELSE LET ch == Char(line, i)
       IN  IF ch = "\"" THEN ScanLine(line, i + 1, current, ~inQuotes, values)
           ELSE IF ch = "," /\ ~inQuotes
                  THEN ScanLine(line, i + 1, "", inQuotes, Append(values, CleanCell(current)))
                  ELSE ScanLine(line, i + 1, current \o ch, inQuotes, values)

ParseLine(line) == ScanLine(line, 1, "", FALSE, <<>>)

\* The row object: header -> value; a later column of the same name
\* overwrites an earlier one, a missing value is ''.
RowObject(headers, values) ==
  [h \in {headers[i] : i \in 1..Len(headers)} |->
     LET last == CHOOSE i \in 1..Len(headers) :
                   /\ headers[i] = h
                   /\ \A j \in 1..Len(headers) : headers[j] = h => j <= i
     IN  IF last <= Len(values) THEN values[last] ELSE ""]

\* v1 line 54: .filter(obj => Object.values(obj).some(val => val.trim()))
RowNotBlank(obj) == \E h \in DOMAIN obj : Trim(obj[h]) # ""

parseCSV(lin, text) ==
  LET lines == SplitLines(lin, text)
  IN  IF Len(lines) = 0 THEN <<>>
      ELSE LET headers == ParseHeaders(lines[1])
               MkRow(line) == RowObject(headers, ParseLine(line))
               rows == Map(Tail(lines), MkRow)
           IN  IF lin = V1 THEN Filter(rows, RowNotBlank) ELSE rows

---------------------------------------------------------------------------
(* Numbers.  A JavaScript value that the pipeline stores or computes is a  *)
(* record [k, n, d]: k = "num" is the rational n/d (d > 0, lowest terms),  *)
(* the other kinds are null, undefined, NaN and the infinities.            *)

Abs(x) == IF x < 0 THEN -x ELSE x

RECURSIVE Gcd(_, _)
Gcd(a, b) == IF b = 0 THEN a ELSE Gcd(b, a % b)

Rat(n, d) ==
  LET g == Gcd(Abs(n), Abs(d))
      sgn == IF d < 0 THEN -1 ELSE 1
  IN  [k |-> "num", n |-> (sgn * n) \div g, d |-> (sgn * d) \div g]

Special(kind) == [k |-> kind, n |-> 0, d |-> 1]
Null == Special("null")
Undefined == Special("undef")
NaN == Special("nan")
Infinity == Special("inf")

IsNum(v) == v.k = "num"

\* JavaScript truthiness of a number-or-null-or-undefined value.
Truthy(v) == v.k = "inf" \/ (v.k = "num" /\ v.n # 0)

Digits == "0123456789"
IsDigit(c) == LetterIndex(Digits, c) # 0
DigitVal(c) == LetterIndex(Digits, c) - 1

RECURSIVE Pow10(_)
Pow10(e) == IF e = 0 THEN 1 ELSE 10 * Pow10(e - 1)

\* The longest prefix of s made of decimal digits.
RECURSIVE DigitPrefix(_)
DigitPrefix(s) ==
  IF Len(s) > 0 /\ IsDigit(Char(s, 1))
    THEN Char(s, 1) \o DigitPrefix(SubSeq(s, 2, Len(s))) ELSE ""

RECURSIVE DigitsValue(_)
DigitsValue(s) ==
  IF Len(s) = 0 THEN 0
  ELSE 10 * DigitsValue(SubSeq(s, 1, Len(s) - 1)) + DigitVal(Char(s, Len(s)))

StartsWith(s, p) == Len(s) >= Len(p) /\ SubSeq(s, 1, Len(p)) = p

\* parseFloat: leading white space, a sign, then "Infinity" or the longest
\* decimal literal (digits, a point, digits); NaN when there is none.
\* Exponents do not occur in the modelled cells.
parseFloat(s) ==
  LET t == TrimStart(s)
      signed == Len(t) > 0 /\ Char(t, 1) \in {"+", "-"}
      neg == signed /\ Char(t, 1) = "-"
      u == IF signed THEN SubSeq(t, 2, Len(t)) ELSE t
      ip == DigitPrefix(u)
      afterInt == SubSeq(u, Len(ip) + 1, Len(u))
      hasPoint == Len(afterInt) > 0 /\ Char(afterInt, 1) = "."
      fp == IF hasPoint THEN DigitPrefix(SubSeq(afterInt, 2, Len(afterInt))) ELSE ""
      mag == Rat(DigitsValue(ip) * Pow10(Len(fp)) + DigitsValue(fp), Pow10(Len(fp)))
  IN  IF StartsWith(u, "Infinity") THEN Infinity
      ELSE IF Len(ip) = 0 /\ Len(fp) = 0 THEN NaN
      ELSE IF neg THEN Rat(-mag.n, mag.d) ELSE mag

\* Number.isFinite
IsFinite(v) == v.k = "num"

\* ToNumber of a string, as the Date constructor and the "-" operator apply
\* it to a date part: '' is 0, a run of digits its value, any word NaN.
\* (Signs, points and exponents do not occur in the modelled date parts.)
ToNumber(s) ==
  LET t == Trim(s)
  IN  IF t = "" THEN Rat(0, 1)
      ELSE IF DigitPrefix(t) = t THEN Rat(DigitsValue(t), 1)
      ELSE NaN

\* x.toFixed(2) of a finite number: the decimal string with two fraction
\* digits, held as its count of hundredths; ties round away from zero.
ToFixed2(v) ==
  LET m == Abs(v.n) * 100
      q == (2 * m + v.d) \div (2 * v.d)
  IN  [k |-> "str", c |-> IF v.n < 0 THEN -q ELSE q]

\* Arithmetic on finite numbers.
RatSub(a, b) == Rat(a.n * b.d - b.n * a.d, a.d * b.d)
RatDiv(a, b) == Rat(a.n * b.d, a.d * b.n)
RatMul(a, b) == Rat(a.n * b.n, a.d * b.d)
Hundred == Rat(100, 1)

---------------------------------------------------------------------------
(* Dates: the proleptic Gregorian calendar, as the Date object counts it.  *)

\* Days since 1970-01-01 of year y, month m in 1..12, day d (any integer).
DaysFromCivil(y, m, d) ==
  LET yy == IF m <= 2 THEN y - 1 ELSE y
      era == yy \div 400
      yoe == yy - era * 400
      mp == IF m > 2 THEN m - 3 ELSE m + 9
      doy == (153 * mp + 2) \div 5 + d - 1
      doe == yoe * 365 + yoe \div 4 - yoe \div 100 + doy
  IN  era * 146097 + doe - 719468

\* The inverse: [y, m, d] of a day number (getFullYear, getMonth + 1, getDate).
CivilFromDays(z) ==
  LET zz == z + 719468
      era == zz \div 146097
      doe == zz - era * 146097
      yoe == (doe - doe \div 1460 + doe \div 36524 - doe \div 146096) \div 365
      doy == doe - (365 * yoe + yoe \div 4 - yoe \div 100)
      mp == (5 * doy + 2) \div 153
      dd == doy - (153 * mp + 2) \div 5 + 1
      mm == IF mp < 10 THEN mp + 3 ELSE mp - 9
      yy == yoe + era * 400 + (IF mm <= 2 THEN 1 ELSE 0)
  IN  [y |-> yy, m |-> mm, d |-> dd]

\* MakeDay of the language: a month index outside 0..11 carries into the
\* year, a day outside the month rolls into the neighbouring months.
MakeDay(year, monthIndex, day) ==
  DaysFromCivil(year + monthIndex \div 12, (monthIndex % 12) + 1, 1) + day - 1

IsLeap(y) == (y % 4 = 0 /\ y % 100 # 0) \/ y % 400 = 0
DaysInMonth(y, m) ==
  IF m = 2 THEN (IF IsLeap(y) THEN 29 ELSE 28)
  ELSE IF m \in {4, 6, 9, 11} THEN 30 ELSE 31

DateValue(day) == [k |-> "date", day |-> day]
InvalidDate == [k |-> "invalid", day |-> 0]
UndefinedDate == [k |-> "undef", day |-> 0]

\* new Date(year, monthIndex, day) with number arguments; a year in 0..99
\* counts from 1900.
NewDateYMD(year, monthIndex, day) ==
  IF ~(IsNum(year) /\ IsNum(monthIndex) /\ IsNum(day)) THEN InvalidDate
  ELSE LET y == year.n \div year.d
           full == IF y >= 0 /\ y <= 99 THEN 1900 + y ELSE y
       IN  DateValue(MakeDay(full, monthIndex.n \div monthIndex.d, day.n \div day.d))

AllDigits(s) == Len(s) > 0 /\ DigitPrefix(s) = s

\* new Date(string).  The date-only ISO form YYYY-MM-DD and the customary
\* M/D/YYYY form of a real calendar day are dates; every other string of the
\* modelled texts (empty, words) is an Invalid Date.
NewDateString(s) ==
  LET iso == /\ Len(s) = 10 /\ Char(s, 5) = "-" /\ Char(s, 8) = "-"
             /\ AllDigits(SubSeq(s, 1, 4)) /\ AllDigits(SubSeq(s, 6, 7))
             /\ AllDigits(SubSeq(s, 9, 10))
      iy == DigitsValue(SubSeq(s, 1, 4))
      im == DigitsValue(SubSeq(s, 6, 7))
      id == DigitsValue(SubSeq(s, 9, 10))
      parts == Split(s, "/")
      us == /\ Len(parts) = 3
            /\ AllDigits(parts[1]) /\ AllDigits(parts[2]) /\ Len(parts[3]) = 4
            /\ AllDigits(parts[3])
      um == DigitsValue(parts[1])
      ud == DigitsValue(parts[2])
      uy == DigitsValue(parts[3])
  IN  IF iso /\ im \in 1..12 /\ id >= 1 /\ id <= DaysInMonth(iy, im)
        THEN DateValue(DaysFromCivil(iy, im, id))
      ELSE IF us /\ um \in 1..12 /\ ud >= 1 /\ ud <= DaysInMonth(uy, um)
        THEN DateValue(DaysFromCivil(uy, um, ud))
      ELSE InvalidDate

---------------------------------------------------------------------------
(* The normalizers of the load (lines 88-137 and 552-575).                 *)

\* r.Name where a missing property and '' are both falsy.
Field(r, name) == IF name \in DOMAIN r THEN r[name] ELSE ""

\* a || b on strings
OrElse(a, b) == IF a # "" THEN a ELSE b

StockField(lin, r, cap, low, up) ==
  Trim(IF lin = V1 THEN OrElse(Field(r, cap), OrElse(Field(r, low), Field(r, up)))
                   ELSE OrElse(Field(r, cap), Field(r, low)))

StockRecord(lin, r) ==
  [symbol  |-> StockField(lin, r, "Symbol", "symbol", "SYMBOL"),
   company |-> StockField(lin, r, "Company", "company", "COMPANY"),
   sector  |-> StockField(lin, r, "Sector", "sector", "SECTOR")]

HasSymbol(s) == s.symbol # ""

\* cats.map(...).filter(s => s.symbol)
processedStocks(lin, cats) ==
  LET Rec(r) == StockRecord(lin, r)
  IN  Filter(Map(cats, Rec), HasSymbol)

\* row.Date || row.date || row.DATE
DateCell(row) == OrElse(Field(row, "Date"), OrElse(Field(row, "date"), Field(row, "DATE")))

\* Lines 110-124 (v1) and 564 (cra): the Date of a non-empty date cell.
\* In v1 a cell with a slash that has not exactly three parts leaves the
\* variable date unassigned.
RowDate(lin, dateStr) ==
  IF lin = V1 /\ Includes(dateStr, "/")
    THEN LET parts == Split(dateStr, "/")
         IN  IF Len(parts) = 3
               THEN LET one == Rat(1, 1)
                        p0 == ToNumber(parts[1])
                        p1 == ToNumber(parts[2])
                        p2 == ToNumber(parts[3])
                        mdy == NewDateYMD(p2, IF IsNum(p0) THEN RatSub(p0, one) ELSE NaN, p1)
                        dmy == NewDateYMD(p2, IF IsNum(p1) THEN RatSub(p1, one) ELSE NaN, p0)
                    IN  IF mdy.k = "invalid" THEN dmy ELSE mdy
               ELSE UndefinedDate
    ELSE NewDateString(dateStr)

\* A plausible slip: only NaN is turned into null (isNaN in place of
\* Number.isFinite).
PriceCellOnlyNaN(lin, v) ==
  LET num == parseFloat(v)
  IN  IF num.k = "nan" THEN Null
      ELSE IF lin = V1 /\ IsNum(num) /\ num.n <= 0 THEN Null
      ELSE num

\* The price entry of one cell: lines 131-132 (v1 rejects values <= 0) and
\* 569-570 (cra keeps every finite number).
PriceCell(lin, v) ==
  LET num == parseFloat(v)
  IN  IF lin = V1 THEN (IF IsFinite(num) /\ num.n > 0 THEN num ELSE Null)
                  ELSE (IF IsFinite(num) THEN num ELSE Null)

\* The columns stored as prices: every header without 'date' in it.
PriceKeys(row) == {k \in DOMAIN row : ~Includes(ToLowerCase(k), "date")}

PricePoint(lin, row, day) ==
  [date |-> day,
   px   |-> [t \in {Trim(k) : k \in PriceKeys(row)} |->
               PriceCell(lin, row[CHOOSE k \in PriceKeys(row) : Trim(k) = t])]]

\* One step of prices.map: a point, null (the row is dropped), or a
\* TypeError thrown by date.getTime() on an unassigned date (line 126).
NormalizeRow(lin, row) ==
  LET dateStr == DateCell(row)
      date == RowDate(lin, dateStr)
      none == [date |-> 0, px |-> <<>>]
  IN  IF dateStr = "" THEN [k |-> "null", point |-> none]
      ELSE IF date.k = "undef" THEN [k |-> "throw", point |-> none]
      ELSE IF date.k = "invalid" THEN [k |-> "null", point |-> none]
      ELSE [k |-> "point", point |-> PricePoint(lin, row, date.day)]

\* Array.prototype.sort((a, b) => b.date - a.date): stable, newest first.
RECURSIVE InsertByDate(_, _)
InsertByDate(sorted, p) ==
  IF sorted = <<>> THEN <<p>>
  ELSE IF Head(sorted).date >= p.date
         THEN <<Head(sorted)>> \o InsertByDate(Tail(sorted), p)
         ELSE <<p>> \o sorted

\* A plausible slip: the sort is left out.
PointsInRowOrder(points) == points

RECURSIVE SortByDateDesc(_)
SortByDateDesc(points) ==
  IF points = <<>> THEN <<>>
  ELSE InsertByDate(SortByDateDesc(SubSeq(points, 1, Len(points) - 1)),
                    points[Len(points)])

IsPoint(r) == r.k = "point"
PointOf(r) == r.point

\* prices.map(...).filter(Boolean).sort(...): the series, or the exception.
processedPrices(lin, prices) ==
  LET Norm(row) == NormalizeRow(lin, row)
      Outcome(results) ==
        [threw  |-> \E i \in 1..Len(results) : results[i].k = "throw",
         points |-> SortByDateDesc(Map(Filter(results, IsPoint), PointOf))]
  IN  CHOOSE out \in {Outcome(results) : results \in {Map(prices, Norm)}} : TRUE

---------------------------------------------------------------------------
(* The derived values (useMemo), as functions of the state they read.      *)

SameSectorPeer(list, base, bt) ==
  LET Keep(s) == s.sector = base.sector /\ s.symbol # bt
  IN  Filter(list, Keep)

SymbolOf(s) == s.symbol

\* A plausible slip: the list of peers is not cut to three.
PeerTickersNoSlice(list, bt) ==
  IF ~\E i \in 1..Len(list) : list[i].symbol = bt THEN <<>>
  ELSE LET base == list[CHOOSE i \in 1..Len(list) : list[i].symbol = bt]
       IN  Map(SameSectorPeer(list, base, bt), SymbolOf)

\* Lines 160-167 and 586-593.
PeerTickersOf(list, bt) ==
  IF ~\E i \in 1..Len(list) : list[i].symbol = bt THEN <<>>
  ELSE LET base == list[CHOOSE i \in 1..Len(list) :
                          /\ list[i].symbol = bt
                          /\ \A j \in 1..(i - 1) : list[j].symbol # bt]
       IN  Slice0(Map(SameSectorPeer(list, base, bt), SymbolOf), 3)

peerTickers == PeerTickersOf(stockList, baseTicker)

\* new Set(...) then Array.from: first occurrences, in insertion order.
RECURSIVE Dedup(_)
Dedup(seq) ==
  IF seq = <<>> THEN <<>>
  ELSE LET init == Dedup(SubSeq(seq, 1, Len(seq) - 1))
           x == seq[Len(seq)]
       IN  IF \E i \in 1..Len(init) : init[i] = x THEN init ELSE Append(init, x)

\* A plausible slip: an array instead of the Set.
ActiveTickersNoSet(bt, md, peers, customs) ==
  Slice0(<<bt>> \o (IF md = "peer" THEN peers ELSE <<>>)
               \o (IF md = "custom" THEN customs ELSE <<>>), 4)

\* Lines 170-175 and 595-600.
ActiveTickersOf(bt, md, peers, customs) ==
  Slice0(Dedup(<<bt>> \o (IF md = "peer" THEN peers ELSE <<>>)
                      \o (IF md = "custom" THEN customs ELSE <<>>)), 4)

activeTickers == ActiveTickersOf(baseTicker, mode, peerTickers, customTickers)

Timeframes == {"1M", "3M", "1Y", "2Y", "3Y", "YTD"}

\* monthMap, lines 183 and 605; 0 stands for a key the map lacks.
MonthMap(tf) ==
  CASE tf = "1M" -> 1 [] tf = "3M" -> 3 [] tf = "1Y" -> 12
    [] tf = "2Y" -> 24 [] tf = "3Y" -> 36 [] OTHER -> 0

\* The start of the window: lines 180-188 and 604-607.
StartOf(latest, tf) ==
  LET c == CivilFromDays(latest)
  IN  IF tf = "YTD" THEN MakeDay(c.y, 0, 1)
      ELSE IF MonthMap(tf) # 0 THEN MakeDay(c.y, (c.m - 1) - MonthMap(tf), c.d)
      ELSE latest

\* A plausible slip: the point on the start date itself is left out.
FilteredDataStrict(series, tf) ==
  IF Len(series) = 0 THEN <<>>
  ELSE LET start == StartOf(series[1].date, tf)
           Keep(r) == r.date > start
       IN  Filter(series, Keep)

\* Lines 178-191 and 602-609.
FilteredDataOf(series, tf) ==
  IF Len(series) = 0 THEN <<>>
  ELSE LET start == StartOf(series[1].date, tf)
           Keep(r) == r.date >= start
       IN  Filter(series, Keep)

filteredData == FilteredDataOf(priceData, timeframe)

IndexTickers == <<"SEMDEX", "SEM-10">>

\* row[t]
RowGet(row, t) == IF t \in DOMAIN row.px THEN row.px[t] ELSE Undefined

\* bases[t] = firstRow[t] || null
BaseOf(firstRow, t) == IF Truthy(RowGet(firstRow, t)) THEN RowGet(firstRow, t) ELSE Null

\* The value stored under a ticker: lines 216 (a toFixed(2) string) and
\* 626 (the number).
ChartValue(lin, cur, base) ==
  LET v == RatMul(RatDiv(cur, base), Hundred)
  IN  IF lin = V1 THEN ToFixed2(v) ELSE [k |-> "num", c |-> v]

ChartPoint(lin, row, firstRow, tickers) ==
  [date |-> row.date,
   vals |-> [t \in {u \in {tickers[i] : i \in 1..Len(tickers)} :
                      Truthy(BaseOf(firstRow, u)) /\ Truthy(RowGet(row, u))} |->
               ChartValue(lin, RowGet(row, t), BaseOf(firstRow, t))]]

\* A plausible slip: the newest point of the window is taken as the baseline.
ChartDataNewestBase(lin, filtered, active) ==
  IF Len(filtered) = 0 THEN <<>>
  ELSE LET firstRow == filtered[1]
           tickers == active \o IndexTickers
           Point(row) == ChartPoint(lin, row, firstRow, tickers)
       IN  Map(Reverse(filtered), Point)

\* Lines 194-221 and 611-630.
ChartDataOf(lin, filtered, active) ==
  IF Len(filtered) = 0 THEN <<>>
  ELSE LET firstRow == filtered[Len(filtered)]
           tickers == active \o IndexTickers
           Point(row) == ChartPoint(lin, row, firstRow, tickers)
       IN  Map(Reverse(filtered), Point)

chartData == ChartDataOf(lineage, filteredData, activeTickers)

Dash == [k |-> "dash", c |-> 0]

\* A plausible slip: the change is divided by the end price.
ReturnRowByEnd(first, last, t) ==
  LET startPrice == RowGet(first, t)
      endPrice == RowGet(last, t)
  IN  [ticker |-> t,
       pct |-> IF Truthy(startPrice) /\ Truthy(endPrice)
                 THEN ToFixed2(RatMul(RatDiv(RatSub(endPrice, startPrice), endPrice),
                                      Hundred))
                 ELSE Dash]

\* Lines 229-235 and 636-640.
ReturnRow(first, last, t) ==
  LET startPrice == RowGet(first, t)
      endPrice == RowGet(last, t)
  IN  [ticker |-> t,
       pct |-> IF Truthy(startPrice) /\ Truthy(endPrice)
                 THEN ToFixed2(RatMul(RatDiv(RatSub(endPrice, startPrice), startPrice),
                                      Hundred))
                 ELSE Dash]

\* Lines 224-236 and 632-641.
ReturnsTableOf(filtered, active) ==
  IF Len(filtered) = 0 THEN <<>>
  ELSE LET first == filtered[Len(filtered)]
           last == filtered[1]
           Row(t) == ReturnRow(first, last, t)
       IN  Map(active \o IndexTickers, Row)

returnsTable == ReturnsTableOf(filteredData, activeTickers)

\* value.split(/[,;\s]+/): pieces between runs of separators; a run at the
\* start or the end leaves an empty piece there.
RECURSIVE SplitRuns(_, _, _, _)
SplitRuns(s, i, current, acc) ==
  IF i > Len(s) THEN Append(acc, current)
  ELSE LET c == Char(s, i)
           sep == c \in {",", ";"} \/ IsSpace(c)
           prevSep == i > 1 /\ (Char(s, i - 1) \in {",", ";"} \/ IsSpace(Char(s, i - 1)))
       IN  IF sep THEN (IF prevSep THEN SplitRuns(s, i + 1, current, acc)
                                   ELSE SplitRuns(s, i + 1, "", Append(acc, current)))
                  ELSE SplitRuns(s, i + 1, current \o c, acc)

NonEmpty(v) == v # ""

\* A plausible slip: the tokens are not uppercased.
CustomTickersNoUpper(lin, value, bt) ==
  LET NotBase(v) == v # bt
  IN  Slice0(Filter(Filter(SplitRuns(value, 1, "", <<>>), NonEmpty), NotBase), 3)

\* Lines 242-247 (with the trim) and 648-653.
CustomTickersOf(lin, value, bt) ==
  LET Up(v) == IF lin = V1 THEN Trim(ToUpperCase(v)) ELSE ToUpperCase(v)
      NotBase(v) == v # bt
  IN  Slice0(Filter(Filter(Map(SplitRuns(value, 1, "", <<>>), Up), NonEmpty), NotBase), 3)

---------------------------------------------------------------------------
(* textsRead counts the response bodies read so far (the awaits of lines    *)
(* 81-82 / 549-550 that have resolved).                                    *)
(* The texts the two endpoints may deliver, and what the user may type.    *)

CatTexts ==
  { "Symbol,Company,Sector\nMCB,\"MCB Group, Ltd\",Banking\nSBM,SBM Holdings,Banking\nIBL,IBL Ltd,Conglomerate\n",
    "symbol,company,sector\r\nMCB,MCB Group,Banking\r\nSBM,SBM,Banking\r\nCIM,CIM,Banking\r\n,No Symbol,Banking\r\nABC,ABC,Banking\r\nMUA,MUA,Banking\r\nIBL,IBL,Conglomerate\r\n",
    "Symbol,Sector\nSBM,Banking\nMCB,Banking\n\nSBM,Banking\n",
    "" }

PriceTexts ==
  { "Date,MCB,SBM,SEMDEX,SEM-10\n2024-03-31,110,5.5,2000,400\n2024-03-01,105,0,1990,n/a\n2024-02-29,,5.25,1980,395\n2023-12-31,100,5,1900,390\n2023-03-31,90,4,1800,380\n2022-03-31,80,4.5,1700,\n2021-03-31,75,3,1600,370\n",
    "date,MCB,SEMDEX,SEM-10\r\n01/15/2024,100,-5,10\r\n03/15/2024,120,7,0\r\n02/15/2024,bad,6,12\r\n",
    "Date,MCB,SEMDEX\n2024-01-10,50,10\nnot a date,60,11\n,70,12\n2024-02-10,55,11\n",
    "Date,MCB,SEMDEX\n2024-01-10,50,10\n1/2,60,11\n2024-02-10,55,11\n",
    "Date,MCB\n" }

CustomInputs ==
  { "", "ibl, ciel;  MUA mcb", "sbm sbm", "SBM,IBL,CIM,MUA", "semdex;mcb" }

Modes == {"single", "peer", "custom"}

---------------------------------------------------------------------------
(* The component.                                                          *)

\* useState initial values, lines 58-66 and 529-537, before the effect runs.
InitState ==
  /\ pc = "mount"
  /\ catFetch = "idle" /\ prFetch = "idle" /\ issued = 0
  /\ textsRead = 0 /\ catsText = ""
  /\ stockList = <<>> /\ priceData = <<>>
  /\ baseTicker = "MCB" /\ mode = "single"
  /\ customTickers = <<>> /\ customTickerInput = ""
  /\ timeframe = "3M"
  /\ status = "loading" /\ errorMsg = ""

Init == lineage \in {V1, CRA} /\ InitState

\* The message of the Error thrown on a non-success response, lines 78, 547.
DownloadFailedMsg(lin) ==
  IF lin = V1 THEN "Failed to fetch CSV data" ELSE "CSV download failed"

\* The message of a rejected fetch() or text() (the platform's TypeError).
NetworkErrorMsg == "Failed to fetch"

\* The message of the TypeError of line 126.
GetTimeErrorMsg == "Cannot read properties of undefined (reading 'getTime')"

\* catch (e) { setErrorMsg(e.message); setStatus("error"); }
Catch(msg) == errorMsg' = msg /\ status' = "error" /\ pc' = "done"

\* The effect of lines 69-157 / 540-583 runs once after the first render:
\* both fetches are issued and the function waits on Promise.all.
Mount ==
  /\ pc = "mount"
  /\ catFetch' = "pending" /\ prFetch' = "pending"
  /\ issued' = issued + 2
  /\ pc' = "awaitAll"
  /\ UNCHANGED <<lineage, textsRead, catsText, stockList, priceData, baseTicker,
                 mode, customTickers, customTickerInput, timeframe, status,
                 errorMsg>>

\* A plausible slip: going on as soon as one response is there.
AnyFulfilled(c, p) == c \in {"ok", "notok"} \/ p \in {"ok", "notok"}

\* Promise.all is fulfilled once every promise is.
AllFulfilled(c, p) == c \in {"ok", "notok"} /\ p \in {"ok", "notok"}

\* A plausible slip: only the category response is checked.
ResponsesOkCatOnly(c, p) == c = "ok"

\* Lines 77 and 547: !catRes.ok || !prRes.ok throws.
ResponsesOk(c, p) == c = "ok" /\ p = "ok"

\* One fetch settles: fulfilled with a success status, fulfilled with a
\* non-success status, or rejected.  While the function waits on
\* Promise.all, a rejection reaches the catch at once, and the last
\* fulfilment runs the status check of line 77.
FetchSettles(which, outcome) ==
  /\ IF which = "cat" THEN catFetch = "pending" ELSE prFetch = "pending"
  /\ catFetch' = IF which = "cat" THEN outcome ELSE catFetch
  /\ prFetch' = IF which = "cat" THEN prFetch ELSE outcome
  /\ IF pc # "awaitAll"
       THEN UNCHANGED <<pc, status, errorMsg>>
     ELSE IF outcome = "rejected"
       THEN Catch(NetworkErrorMsg)
     ELSE IF AllFulfilled(catFetch', prFetch')
       THEN IF ResponsesOk(catFetch', prFetch')
              THEN pc' = "awaitCatText" /\ UNCHANGED <<status, errorMsg>>
              ELSE Catch(DownloadFailedMsg(lineage))
     ELSE UNCHANGED <<pc, status, errorMsg>>
  /\ UNCHANGED <<lineage, issued, textsRead, catsText, stockList, priceData,
                 baseTicker, mode, customTickers, customTickerInput, timeframe>>

\* await catRes.text() delivers the category text, or rejects.
CatTextArrives(text) ==
  /\ pc = "awaitCatText"
  /\ catsText' = text
  /\ textsRead' = textsRead + 1
  /\ pc' = "awaitPrText"
  /\ UNCHANGED <<lineage, catFetch, prFetch, issued, stockList, priceData,
                 baseTicker, mode, customTickers, customTickerInput, timeframe,
                 status, errorMsg>>

TextRejects ==
  /\ pc \in {"awaitCatText", "awaitPrText"}
  /\ Catch(NetworkErrorMsg)
  /\ UNCHANGED <<lineage, catFetch, prFetch, issued, textsRead, catsText,
                 stockList, priceData, baseTicker, mode, customTickers,
                 customTickerInput, timeframe>>

\* await prRes.text() delivers the price text and the rest of the function
\* runs: both texts are decoded, setStockList, the price rows are
\* normalized, then setPriceData and setStatus("ready"); an exception of
\* the normalizer reaches the catch after setStockList has run.
PrTextArrives(text) ==
  /\ pc = "awaitPrText"
  /\ textsRead' = textsRead + 1
  /\ \E processed \in {processedPrices(lineage, parseCSV(lineage, text))} :
       /\ stockList' = processedStocks(lineage, parseCSV(lineage, catsText))
       /\ IF processed.threw
            THEN /\ Catch(GetTimeErrorMsg)
                 /\ UNCHANGED priceData
            ELSE /\ priceData' = processed.points
                 /\ status' = "ready"
                 /\ pc' = "done"
                 /\ UNCHANGED errorMsg
  /\ UNCHANGED <<lineage, catFetch, prFetch, issued, catsText, baseTicker,
                 mode, customTickers, customTickerInput, timeframe>>

\* The controls exist only in the render of the ready state (the early
\* exits of lines 251-271 and 658-659).
ControlsShown == status = "ready"

\* The Primary Stock select, lines 294-304: one option per catalog entry.
SetBaseTicker(sym) ==
  /\ ControlsShown
  /\ \E i \in 1..Len(stockList) : stockList[i].symbol = sym
  /\ baseTicker' = sym
  /\ UNCHANGED <<lineage, pc, catFetch, prFetch, issued, textsRead, catsText, stockList,
                 priceData, mode, customTickers, customTickerInput, timeframe,
                 status, errorMsg>>

\* The Timeframe select, lines 312-323.
SetTimeframe(tf) ==
  /\ ControlsShown
  /\ timeframe' = tf
  /\ UNCHANGED <<lineage, pc, catFetch, prFetch, issued, textsRead, catsText, stockList,
                 priceData, baseTicker, mode, customTickers, customTickerInput,
                 status, errorMsg>>

\* The mode buttons, lines 332-348.
SetMode(m) ==
  /\ ControlsShown
  /\ mode' = m
  /\ UNCHANGED <<lineage, pc, catFetch, prFetch, issued, textsRead, catsText, stockList,
                 priceData, baseTicker, customTickers, customTickerInput,
                 timeframe, status, errorMsg>>

\* Lines 240-249 and 646-655; the input exists in custom mode (line 353).
handleCustomTickersChange(value) ==
  /\ ControlsShown
  /\ mode = "custom"
  /\ customTickerInput' = value
  /\ customTickers' = CustomTickersOf(lineage, value, baseTicker)
  /\ UNCHANGED <<lineage, pc, catFetch, prFetch, issued, textsRead, catsText, stockList,
                 priceData, baseTicker, mode, timeframe, status, errorMsg>>

Symbols(list) == {list[i].symbol : i \in 1..Len(list)}

Next ==
  \/ Mount
  \/ \E which \in {"cat", "pr"}, outcome \in {"ok", "notok", "rejected"} :
       FetchSettles(which, outcome)
  \/ \E text \in CatTexts : CatTextArrives(text)
  \/ TextRejects
  \/ \E text \in PriceTexts : PrTextArrives(text)
  \/ \E sym \in Symbols(stockList) : SetBaseTicker(sym)
  \/ \E tf \in Timeframes : SetTimeframe(tf)
  \/ \E m \in Modes : SetMode(m)
  \/ \E value \in CustomInputs : handleCustomTickersChange(value)

Spec == Init /\ [][Next]_vars

---------------------------------------------------------------------------
(* Specifications for the pure derived values: the component is ready and  *)
(* the loaded data ranges over a bounded set, the user's events apply the  *)
(* function.                                                               *)

\* The component after a load that delivered the catalog list and the
\* series prices, before any user event.
ReadyWith(list, prices) ==
  /\ pc = "done"
  /\ catFetch = "ok" /\ prFetch = "ok" /\ issued = 2
  /\ textsRead = 2 /\ catsText = ""
  /\ stockList = list /\ priceData = prices
  /\ baseTicker = "MCB" /\ mode = "single"
  /\ customTickers = <<>> /\ customTickerInput = ""
  /\ timeframe = "3M"
  /\ status = "ready" /\ errorMsg = ""

RECURSIVE SeqsUpTo(_, _)
SeqsUpTo(S, n) ==
  IF n = 0 THEN {<<>>}
  ELSE LET shorter == SeqsUpTo(S, n - 1)
       IN  shorter \cup {Append(q, x) : q \in shorter, x \in S}

\* The longest catalog of SpecPeers.
MaxCatalog == 5

PeerRecords ==
  { [symbol |-> "MCB", company |-> "", sector |-> "Banking"],
    [symbol |-> "SBM", company |-> "", sector |-> "Banking"],
    [symbol |-> "SBM", company |-> "", sector |-> "Leisure"],
    [symbol |-> "IBL", company |-> "", sector |-> "Banking"] }

InitPeers ==
  /\ lineage \in {V1, CRA}
  /\ \E list \in SeqsUpTo(PeerRecords, MaxCatalog) : ReadyWith(list, <<>>)

NextPeers == \E sym \in Symbols(stockList) : SetBaseTicker(sym)

SpecPeers == InitPeers /\ [][NextPeers]_vars

\* The most tickers a typed text of SpecCustom names.
MaxTokens == 4

TypedWords == {"a", "Ab"}
TypedSeparators == {" ", ",;"}

\* The texts of exactly n words, one separator between neighbours.
RECURSIVE TypedBodies(_)
TypedBodies(n) ==
  IF n = 0 THEN {""}
  ELSE IF n = 1 THEN TypedWords
  ELSE {b \o sep \o w : b \in TypedBodies(n - 1), sep \in TypedSeparators, w \in TypedWords}

\* Every text of up to MaxTokens words, with or without a leading blank and
\* a trailing comma, and with single or doubled separators.
TypedInputs ==
  {lead \o b \o trail :
     b \in UNION {TypedBodies(n) : n \in 0..MaxTokens},
     lead \in {"", " "}, trail \in {"", ", "}}

CustomCatalog ==
  << [symbol |-> "MCB", company |-> "", sector |-> "Banking"],
     [symbol |-> "A", company |-> "", sector |-> "Banking"] >>

\* The user chose the custom mode and typed a text while the base was MCB.
InitCustom ==
  /\ lineage \in {V1, CRA}
  /\ pc = "done"
  /\ catFetch = "ok" /\ prFetch = "ok" /\ issued = 2
  /\ textsRead = 2 /\ catsText = ""
  /\ stockList = CustomCatalog /\ priceData = <<>>
  /\ baseTicker = "MCB" /\ mode = "custom"
  /\ customTickerInput \in TypedInputs
  /\ customTickers = CustomTickersOf(lineage, customTickerInput, baseTicker)
  /\ timeframe = "3M"
  /\ status = "ready" /\ errorMsg = ""

\* The input fires again with the text it shows (typed anew, for example
\* after another base was selected).
RetypeCustomTickers == handleCustomTickersChange(customTickerInput)

NextCustom ==
  \/ \E sym \in Symbols(stockList) : SetBaseTicker(sym)
  \/ RetypeCustomTickers

SpecCustom == InitCustom /\ [][NextCustom]_vars

\* The longest series of SpecFilter.
MaxPoints == 3

\* Calendar days around the ends of months, of February and of the year,
\* one, two and three years apart.
SeriesDays ==
  { DaysFromCivil(2024, 5, 31), DaysFromCivil(2024, 5, 1), DaysFromCivil(2024, 4, 30),
    DaysFromCivil(2024, 3, 2), DaysFromCivil(2024, 3, 1), DaysFromCivil(2024, 2, 29),
    DaysFromCivil(2024, 1, 31), DaysFromCivil(2024, 1, 1), DaysFromCivil(2023, 12, 31),
    DaysFromCivil(2023, 5, 31), DaysFromCivil(2023, 5, 30), DaysFromCivil(2023, 3, 1),
    DaysFromCivil(2023, 2, 28), DaysFromCivil(2022, 5, 31), DaysFromCivil(2021, 5, 31),
    DaysFromCivil(2021, 5, 30) }

\* The series the price normalizer can leave: newest first, equal dates
\* allowed; the price of a point tells its place in the series.
SeriesOfDays(days) ==
  [i \in 1..Len(days) |-> [date |-> days[i], px |-> [t \in {"MCB"} |-> Rat(i, 1)]]]

DescendingDays ==
  {days \in SeqsUpTo(SeriesDays, MaxPoints) :
     \A i \in 1..(Len(days) - 1) : days[i] >= days[i + 1]}

InitFilter ==
  /\ lineage \in {V1, CRA}
  /\ \E days \in DescendingDays : ReadyWith(<<>>, SeriesOfDays(days))

NextFilter == \E tf \in Timeframes : SetTimeframe(tf)

SpecFilter == InitFilter /\ [][NextFilter]_vars

\* The most data rows of a price text of SpecPrices.
MaxPriceRows == 3

PriceHeader == "Date,MCB,Last Update\n"

\* What a price cell can hold: numbers, zero, a negative, nothing, words,
\* and the spellings parseFloat reads as NaN and as the infinities.
CellTexts == {"12.5", "0", "-5", "", "n/a", "NaN", "Infinity", "-Infinity"}

\* What a date cell can hold: ISO days, a slash date, a word.
DateTexts == {"2024-03-31", "2023-12-31", "01/15/2024", "n/a"}

DigitText(i) == Char(Digits, i + 1)

\* n rows dated 1, 2, ... January 2024 in file order, any cell under MCB.
RECURSIVE CellBodies(_)
CellBodies(n) ==
  IF n = 0 THEN {""}
  ELSE {b \o "2024-01-0" \o DigitText(n) \o "," \o c \o ",99\n" :
          b \in CellBodies(n - 1), c \in CellTexts}

\* n rows with any date cell; the MCB cell of a row is its number in the file.
RECURSIVE OrderBodies(_)
OrderBodies(n) ==
  IF n = 0 THEN {""}
  ELSE {b \o d \o "," \o DigitText(n) \o ",99\n" :
          b \in OrderBodies(n - 1), d \in DateTexts}

PriceCsvs ==
  {PriceHeader \o b :
     b \in UNION {CellBodies(n) \cup OrderBodies(n) : n \in 0..MaxPriceRows}}

\* The catalog text was read and the price text is awaited (line 83 / 552).
InitPrices ==
  /\ lineage \in {V1, CRA}
  /\ pc = "awaitPrText"
  /\ catFetch = "ok" /\ prFetch = "ok" /\ issued = 2
  /\ textsRead = 1 /\ catsText = ""
  /\ stockList = <<>> /\ priceData = <<>>
  /\ baseTicker = "MCB" /\ mode = "single"
  /\ customTickers = <<>> /\ customTickerInput = ""
  /\ timeframe = "3M"
  /\ status = "loading" /\ errorMsg = ""

NextPrices ==
  \/ \E text \in PriceCsvs : PrTextArrives(text)
  \/ \E tf \in Timeframes : SetTimeframe(tf)

SpecPrices == InitPrices /\ [][NextPrices]_vars

\* The most data lines of a catalog text of SpecDecode.
MaxDataLines == 3

CatalogHeader == "Symbol,Sector"

\* A full line, a line short of its last field, a line of a lone comma, a
\* line of one blank, an empty line, a quoted comma with a field too many.
DataLines == {"MCB,Banking", "SBM", ",", " ", "", "\"A,B\",Leisure,x"}

LineBreaks == {"\n", "\r\n"}

RECURSIVE DataBodies(_, _)
DataBodies(n, br) ==
  IF n = 0 THEN {""}
  ELSE {b \o line \o br : b \in DataBodies(n - 1, br), line \in DataLines}

DecodeTexts ==
  {""} \cup
  UNION {{CatalogHeader \o br \o b :
            b \in UNION {DataBodies(n, br) : n \in 0..MaxDataLines}} :
         br \in LineBreaks}

\* Both responses are there and the catalog text is awaited (line 80 / 551).
InitDecode ==
  /\ lineage \in {V1, CRA}
  /\ pc = "awaitCatText"
  /\ catFetch = "ok" /\ prFetch = "ok" /\ issued = 2
  /\ textsRead = 0 /\ catsText = ""
  /\ stockList = <<>> /\ priceData = <<>>
  /\ baseTicker = "MCB" /\ mode = "single"
  /\ customTickers = <<>> /\ customTickerInput = ""
  /\ timeframe = "3M"
  /\ status = "loading" /\ errorMsg = ""

NextDecode ==
  \/ \E text \in DecodeTexts : CatTextArrives(text)
  \/ PrTextArrives("Date,MCB\n2024-03-31,110\n")

SpecDecode == InitDecode /\ [][NextDecode]_vars

---------------------------------------------------------------------------
(* The claims.                                                             *)

\* C1: fail-fast load.  status is 'ready' only when both fetches were
\* fulfilled with a success status and both bodies were read; and once a
\* fetch was rejected, or both are fulfilled and one reports a non-success
\* status (in whichever order they settled), status is 'error' with a
\* message and neither stockList nor priceData holds anything.
C1_FailFast ==
  /\ status = "ready" =>
       catFetch = "ok" /\ prFetch = "ok" /\ textsRead = 2
  /\ ( \/ catFetch = "rejected" \/ prFetch = "rejected"
       \/ (catFetch = "notok" /\ prFetch \in {"ok", "notok"})
       \/ (prFetch = "notok" /\ catFetch \in {"ok", "notok"}) )
     => /\ status = "error"
        /\ errorMsg # ""
        /\ stockList = <<>>
        /\ priceData = <<>>

\* C1 witness: the price fetch was fulfilled first and with success, the
\* category fetch with a non-success status, and the load ended in error.
C1_Witness ==
  /\ catFetch = "notok" /\ prFetch = "ok"
  /\ status = "error" /\ errorMsg # "" /\ stockList = <<>> /\ priceData = <<>>

\* C2: parse failures never abort the load.  Whenever both fetches
\* succeeded and both texts were delivered, the load has ended with status
\* 'ready' whatever the CSV content.
C2_ParseNeverAborts ==
  (catFetch = "ok" /\ prFetch = "ok" /\ textsRead = 2) => status = "ready"

\* C3 as stated, its last part: while either fetch is unresolved, status is
\* 'loading'.
C3_LoadingWhileUnresolved ==
  (catFetch = "pending" \/ prFetch = "pending") => status = "loading"

\* C3 amended: status starts at 'loading'; it changes only from 'loading',
\* and only to 'ready' or 'error'; the fetches are issued once, both in the
\* same step; and while a fetch is unresolved status is never 'ready', and
\* is 'loading' unless the other fetch was rejected.
C3_Lifecycle ==
  /\ status = "loading" /\ issued = 0
  /\ [][status' # status => status = "loading" /\ status' \in {"ready", "error"}]_vars
  /\ [][issued' # issued => issued = 0 /\ issued' = 2]_vars
  /\ []((catFetch = "pending" \/ prFetch = "pending")
          => /\ status # "ready"
             /\ (catFetch # "rejected" /\ prFetch # "rejected") => status = "loading")

\* C3 witness: one fetch was fulfilled, the other is still unresolved, and
\* status is 'loading'.
C3_Witness ==
  catFetch = "ok" /\ prFetch = "pending" /\ issued = 2 /\ status = "loading"

Range(seq) == {seq[i] : i \in 1..Len(seq)}

NoDuplicates(seq) == \A i, j \in 1..Len(seq) : i # j => seq[i] # seq[j]

FirstIndex(seq, x) ==
  CHOOSE i \in 1..Len(seq) : seq[i] = x /\ \A j \in 1..(i - 1) : seq[j] # x

\* out lists the distinct entries of src, each once, in the order of their
\* first occurrence in src.
IsDistinctListOf(out, src) ==
  /\ NoDuplicates(out)
  /\ Range(out) = Range(src)
  /\ \A i, j \in 1..Len(out) :
       i < j => FirstIndex(src, out[i]) < FirstIndex(src, out[j])

C4_CommonShape ==
  /\ Len(activeTickers) >= 1 /\ Len(activeTickers) <= 4
  /\ NoDuplicates(activeTickers)
  /\ activeTickers[1] = baseTicker
  /\ mode = "single" => activeTickers = <<baseTicker>>

\* C4 as stated: activeTickers has 1 to 4 entries, no duplicates, and starts
\* with baseTicker; in 'single' mode it is [baseTicker], in 'peer' mode
\* baseTicker followed by peerTickers, in 'custom' mode baseTicker followed
\* by customTickers.
C4_ActiveTickersAsStated ==
  /\ C4_CommonShape
  /\ mode = "peer" => activeTickers = <<baseTicker>> \o peerTickers
  /\ mode = "custom" => activeTickers = <<baseTicker>> \o customTickers

\* C4 amended: activeTickers has 1 to 4 entries, no duplicates, and starts
\* with baseTicker; in 'single' mode it is [baseTicker]; in 'peer' mode it
\* lists the distinct entries of baseTicker followed by peerTickers, and in
\* 'custom' mode those of baseTicker followed by customTickers, each once
\* in the order of its first occurrence.
C4_ActiveTickers ==
  /\ C4_CommonShape
  /\ mode = "peer" => IsDistinctListOf(activeTickers, <<baseTicker>> \o peerTickers)
  /\ mode = "custom" => IsDistinctListOf(activeTickers, <<baseTicker>> \o customTickers)

\* C4 witness: custom mode, three custom tickers typed, four equities
\* compared.
C4_Witness ==
  /\ status = "ready" /\ mode = "custom"
  /\ Len(customTickers) = 3 /\ Len(activeTickers) = 4

Min(a, b) == IF a < b THEN a ELSE b

\* C5: peer resolution.  peerTickers is empty when no catalog record has the
\* base symbol; otherwise it holds, in catalog order, the symbols of the
\* first 3 records other than the base symbol's whose sector is that of the
\* (first) base record; it has at most 3 entries and never the base symbol.
\* Catalog [MCB/Banking, SBM/Banking, IBL/Conglomerate] with base MCB gives
\* [SBM].
C5_PeerResolution ==
  LET L == stockList
      present == \E i \in 1..Len(L) : L[i].symbol = baseTicker
      b == CHOOSE i \in 1..Len(L) :
             L[i].symbol = baseTicker /\ \A j \in 1..(i - 1) : L[j].symbol # baseTicker
      others == {i \in 1..Len(L) :
                   L[i].symbol # baseTicker /\ L[i].sector = L[b].sector}
  IN  /\ ~present => peerTickers = <<>>
      /\ present =>
           /\ Len(peerTickers) = Min(3, Cardinality(others))
           /\ \A k \in 1..Len(peerTickers) :
                \E i \in others :
                  /\ Cardinality({j \in others : j < i}) = k - 1
                  /\ peerTickers[k] = L[i].symbol
      /\ Len(peerTickers) <= 3
      /\ baseTicker \notin Range(peerTickers)
      /\ PeerTickersOf(<<[symbol |-> "MCB", company |-> "", sector |-> "Banking"],
                         [symbol |-> "SBM", company |-> "", sector |-> "Banking"],
                         [symbol |-> "IBL", company |-> "", sector |-> "Conglomerate"]>>,
                       "MCB") = <<"SBM">>

\* C5 witness: the base record has four same-sector records beside it and
\* three peers are listed.
C5_Witness ==
  /\ \E i \in 1..Len(stockList) : stockList[i].symbol = baseTicker
  /\ Cardinality({i \in 1..Len(stockList) :
                    /\ stockList[i].symbol # baseTicker
                    /\ stockList[i].sector = "Banking"}) >= 4
  /\ Len(peerTickers) = 3

IsSeparator(c) == c \in {",", ";", " ", "\t", "\n", "\r"}

\* Where the tokens of s start, and where the token that starts at i ends.
TokenStarts(s) ==
  {i \in 1..Len(s) :
     ~IsSeparator(Char(s, i)) /\ (i = 1 \/ IsSeparator(Char(s, i - 1)))}

TokenEnd(s, i) ==
  CHOOSE j \in i..Len(s) :
    /\ \A k \in i..j : ~IsSeparator(Char(s, k))
    /\ j = Len(s) \/ IsSeparator(Char(s, j + 1))

TokenAt(s, i) == ToUpperCase(SubSeq(s, i, TokenEnd(s, i)))

\* The starts of the tokens that differ from the base ticker once uppercased.
KeptStarts(s, bt) == {i \in TokenStarts(s) : TokenAt(s, i) # bt}

\* The first 3 such tokens, uppercased, in input order.
ExpectedCustomTickers(s, bt) ==
  [k \in 1..Min(3, Cardinality(KeptStarts(s, bt))) |->
     TokenAt(s, CHOOSE i \in KeptStarts(s, bt) :
                  Cardinality({j \in KeptStarts(s, bt) : j < i}) = k - 1)]

\* C6: custom ticker parsing.  Whenever the handler runs, customTickers
\* becomes the tokens of the typed text (split on runs of commas, semicolons
\* and white space, empty tokens discarded), uppercased, without the tokens
\* equal to the base ticker, in input order, cut to the first 3.  The text
\* "ibl, ciel;  MUA mcb" with base MCB yields [IBL, CIEL, MUA].
C6_CustomParse ==
  /\ customTickers = ExpectedCustomTickers(customTickerInput, baseTicker)
  /\ [][baseTicker' = baseTicker =>
          customTickers' = ExpectedCustomTickers(customTickerInput', baseTicker)]_vars
  /\ \A lin \in {V1, CRA} :
       CustomTickersOf(lin, "ibl, ciel;  MUA mcb", "MCB") = <<"IBL", "CIEL", "MUA">>

\* C6 witness: four tickers were typed while the base was A, one of them is
\* the base, and the other three are the custom tickers.
C6_Witness ==
  /\ baseTicker = "A"
  /\ Cardinality(TokenStarts(customTickerInput)) = 4
  /\ Cardinality(KeptStarts(customTickerInput, "A")) = 3
  /\ Len(customTickers) = 3
  /\ customTickers = ExpectedCustomTickers(customTickerInput, "A")

MonthIndex(c) == c.y * 12 + (c.m - 1)

\* The calendar day n months before the day c, as [mi, d] with mi the month
\* counted from year 0: the same day of the month, and where that month is
\* shorter, as many days into the next month as the day overshoots.
MonthsBefore(c, n) ==
  LET mi == MonthIndex(c) - n
      len == DaysInMonth(mi \div 12, (mi % 12) + 1)
  IN  IF c.d <= len THEN [mi |-> mi, d |-> c.d] ELSE [mi |-> mi + 1, d |-> c.d - len]

WindowStart(latest, tf) ==
  LET c == CivilFromDays(latest)
  IN  IF tf = "YTD" THEN [mi |-> c.y * 12, d |-> 1]
      ELSE MonthsBefore(c, CASE tf = "1M" -> 1 [] tf = "3M" -> 3 [] tf = "1Y" -> 12
                             [] tf = "2Y" -> 24 [] tf = "3Y" -> 36)

\* The day is on or after the start, compared as calendar dates.
OnOrAfter(day, start) ==
  LET c == CivilFromDays(day)
  IN  MonthIndex(c) > start.mi \/ (MonthIndex(c) = start.mi /\ c.d >= start.d)

InWindow == {i \in 1..Len(priceData) :
               OnOrAfter(priceData[i].date, WindowStart(priceData[1].date, timeframe))}

\* C7: timeframe filter.  filteredData is empty when the series is empty;
\* otherwise it is exactly the points whose date is on or after the start,
\* in the order of the series, the start being the latest date minus 1, 3,
\* 12, 24 or 36 calendar months, or January 1 of the latest date's year for
\* YTD.  With 1M every point kept is at most one calendar month older than
\* the latest date, and the point dated the same day of the month before is
\* kept.
C7_TimeframeFilter ==
  /\ priceData = <<>> => filteredData = <<>>
  /\ priceData # <<>> =>
       /\ Len(filteredData) = Cardinality(InWindow)
       /\ \A k \in 1..Len(filteredData) :
            filteredData[k] =
              priceData[CHOOSE i \in InWindow : Cardinality({j \in InWindow : j < i}) = k - 1]
       /\ timeframe = "1M" =>
            LET c == CivilFromDays(priceData[1].date)
            IN  /\ \A k \in 1..Len(filteredData) :
                     LET p == CivilFromDays(filteredData[k].date)
                     IN  \/ MonthIndex(p) = MonthIndex(c)
                         \/ MonthIndex(p) = MonthIndex(c) - 1 /\ p.d >= c.d
                /\ \A i \in 1..Len(priceData) :
                     LET p == CivilFromDays(priceData[i].date)
                     IN  MonthIndex(p) = MonthIndex(c) - 1 /\ p.d = c.d
                           => priceData[i] \in Range(filteredData)

\* C7 witness: the 1M window of a series that spans two years and ends on
\* 31 May 2024 keeps the point of 1 May and drops the older one.
C7_Witness ==
  /\ timeframe = "1M"
  /\ Len(priceData) = 3
  /\ priceData[1].date = DaysFromCivil(2024, 5, 31)
  /\ priceData[2].date = DaysFromCivil(2024, 5, 1)
  /\ priceData[3].date = DaysFromCivil(2022, 5, 31)
  /\ filteredData = SubSeq(priceData, 1, 2)

\* A price that is a number other than zero (neither null nor missing).
HasPrice(v) == IsNum(v) /\ v.n # 0

\* The chart value is 100: the number 100, or the text "100.00".
IsHundred(v) == (v.k = "num" /\ v.c = Hundred) \/ (v.k = "str" /\ v.c = 10000)

ChartTickers == activeTickers \o IndexTickers

OldestRow == filteredData[Len(filteredData)]

\* C8: rebase to 100.  In every ready state with a non-empty window, the
\* first (oldest) point of chartData carries 100 for every ticker among the
\* active tickers, SEMDEX and SEM-10 whose price at the oldest point of the
\* window is a non-zero number; a start value of 100 rebased on itself is 100.
C8_RebaseTo100 ==
  /\ status = "ready" /\ filteredData # <<>> =>
       \A t \in Range(ChartTickers) :
         HasPrice(RowGet(OldestRow, t)) =>
           /\ t \in DOMAIN chartData[1].vals
           /\ IsHundred(chartData[1].vals[t])
  /\ \A lin \in {V1, CRA} : IsHundred(ChartValue(lin, Hundred, Hundred))

\* C8 witness: a ready window of several points in which a ticker starts at
\* 100 and ends at another value.
C8_Witness ==
  /\ status = "ready" /\ Len(filteredData) >= 2
  /\ HasPrice(RowGet(OldestRow, "MCB"))
  /\ "MCB" \in Range(ChartTickers)
  /\ IsHundred(chartData[1].vals["MCB"])
  /\ "MCB" \in DOMAIN chartData[Len(chartData)].vals
  /\ ~IsHundred(chartData[Len(chartData)].vals["MCB"])

\* C9: rebase output shape.  chartData has one point per point of
\* filteredData, in ascending date order (the reverse of the stored order);
\* a point has a ticker's key exactly when the ticker's price at the oldest
\* point of the window and its price at that point are both non-zero
\* numbers, and the value is then the number current / baseline * 100.
C9_RebaseShape ==
  status = "ready" =>
    /\ Len(chartData) = Len(filteredData)
    /\ \A k \in 1..Len(chartData) :
         LET row == filteredData[Len(filteredData) + 1 - k]
         IN  /\ chartData[k].date = row.date
             /\ k > 1 => chartData[k - 1].date <= chartData[k].date
             /\ \A t \in Range(ChartTickers) :
                  LET base == RowGet(OldestRow, t)
                      cur == RowGet(row, t)
                  IN  /\ t \in DOMAIN chartData[k].vals <=> HasPrice(base) /\ HasPrice(cur)
                      /\ t \in DOMAIN chartData[k].vals =>
                           /\ chartData[k].vals[t].k = "num"
                           /\ chartData[k].vals[t].c = RatMul(RatDiv(cur, base), Hundred)

\* c hundredths is x rounded to 2 decimal places.
IsRounded2(c, x) == 2 * Abs(100 * x.n - c * x.d) <= x.d

\* C10: returns table.  For a non-empty window returnsTable has one row per
\* active ticker, then SEMDEX and SEM-10, in that order; the percent change
\* of a row is (end - start) / start * 100 rounded to 2 decimal places,
\* start and end being the ticker's prices at the oldest and the newest
\* point of the window, when both are non-zero numbers, and the dash
\* otherwise.  Oldest 100 and newest 110 give "10.00"; a null endpoint gives
\* the dash.
C10_ReturnsTable ==
  /\ status = "ready" /\ filteredData # <<>> =>
       /\ Len(returnsTable) = Len(activeTickers) + 2
       /\ \A i \in 1..Len(returnsTable) :
            LET t == ChartTickers[i]
                start == RowGet(OldestRow, t)
                end == RowGet(filteredData[1], t)
            IN  /\ returnsTable[i].ticker = t
                /\ IF HasPrice(start) /\ HasPrice(end)
                     THEN /\ returnsTable[i].pct.k = "str"
                          /\ IsRounded2(returnsTable[i].pct.c,
                                        RatMul(RatDiv(RatSub(end, start), start), Hundred))
                     ELSE returnsTable[i].pct = Dash
  /\ LET at100 == [date |-> 0, px |-> [t \in {"X"} |-> Rat(100, 1)]]
         at110 == [date |-> 1, px |-> [t \in {"X"} |-> Rat(110, 1)]]
         atNull == [date |-> 1, px |-> [t \in {"X"} |-> Null]]
     IN  /\ ReturnRow(at100, at110, "X").pct = [k |-> "str", c |-> 1000]
         /\ ReturnRow(at100, atNull, "X").pct = Dash
         /\ ReturnRow(atNull, at110, "X").pct = Dash

\* C10 witness: a ready window in which MCB went from 100 to 110 and
\* another row has no data.
C10_Witness ==
  /\ status = "ready" /\ Len(filteredData) >= 2
  /\ RowGet(OldestRow, "MCB") = Rat(100, 1)
  /\ RowGet(filteredData[1], "MCB") = Rat(110, 1)
  /\ returnsTable[1] = [ticker |-> "MCB", pct |-> [k |-> "str", c |-> 1000]]
  /\ \E i \in 1..Len(returnsTable) : returnsTable[i].pct = Dash

\* C11: no NaN prices.  Every value stored under a ticker in a point of
\* priceData is a finite number or null, never NaN or an infinity, and in
\* the first lineage never a number <= 0; no column whose header contains
\* 'date' in any case is stored as a price entry.
C11_NoNaNPrices ==
  \A i \in 1..Len(priceData) :
    \A t \in DOMAIN priceData[i].px :
      LET v == priceData[i].px[t]
      IN  /\ v = Null \/ (v.k = "num" /\ v.d > 0)
          /\ lineage = V1 /\ v.k = "num" => v.n > 0
          /\ ~Includes(ToLowerCase(t), "date")

\* C11 witness: three rows were loaded; the series holds a price and nulls
\* under MCB and nothing under the other columns.
C11_Witness ==
  /\ status = "ready" /\ Len(priceData) = 3
  /\ \A i \in 1..3 : DOMAIN priceData[i].px = {"MCB"}
  /\ priceData[1].date = DaysFromCivil(2024, 1, 3)
  /\ priceData[1].px["MCB"] = Null
  /\ priceData[2].px["MCB"] = Rat(25, 2)
  /\ priceData[3].px["MCB"] = Null

\* C12: price series order.  In every reachable state priceData is sorted by
\* date, newest first, whatever the row order of the source, so its first
\* point is the latest and the last point of filteredData is its oldest.
C12_SeriesOrder ==
  /\ \A i \in 1..(Len(priceData) - 1) : priceData[i].date >= priceData[i + 1].date
  /\ \A i \in 1..Len(priceData) : priceData[1].date >= priceData[i].date
  /\ \A k \in 1..Len(filteredData) :
       filteredData[Len(filteredData)].date <= filteredData[k].date

\* C12 witness: the third row of the file is the newest and the second the
\* oldest; the series has them first and last, and the 1Y window keeps all.
C12_Witness ==
  /\ status = "ready" /\ timeframe = "1Y"
  /\ Len(priceData) = 3 /\ Len(filteredData) = 3
  /\ priceData[1].px["MCB"] = Rat(3, 1)
  /\ priceData[2].px["MCB"] = Rat(1, 1)
  /\ priceData[3].px["MCB"] = Rat(2, 1)
  /\ priceData[1].date > priceData[2].date
  /\ priceData[2].date > priceData[3].date

\* The lines of a text, broken at \n or \r\n.
TextLines(text) ==
  LET pieces == Split(text, "\n")
  IN  [i \in 1..Len(pieces) |-> StripCR(pieces[i])]

LineNotBlank(line) == \E i \in 1..Len(line) : ~IsSpace(Char(line, i))

NonBlankLines(text) == SelectSeq(TextLines(text), LineNotBlank)

\* rows is what the claim says of the text: nothing for a text without a
\* non-blank line; otherwise one row per non-blank line after the header
\* line, in order, keyed by the header cells, a field missing at the end of
\* a line being "".
IsDecodeOf(rows, text) ==
  LET lines == NonBlankLines(text)
  IN  IF lines = <<>> THEN rows = <<>>
      ELSE LET headers == ParseHeaders(lines[1])
           IN  /\ Len(rows) = Len(lines) - 1
               /\ \A i \in 1..Len(rows) :
                    /\ DOMAIN rows[i] = Range(headers)
                    /\ LET values == ParseLine(lines[i + 1])
                       IN  \A j \in 1..Len(headers) :
                             rows[i][headers[j]] =
                               IF j <= Len(values) THEN values[j] ELSE ""

\* C13: CSV decode row count and shape.  For a text with a header line and
\* N non-blank data lines, broken by \n or \r\n, parseCSV returns N row
\* objects, one per data line in order, each with the header's key set and
\* "" for the fields missing at the end of its line; an empty text gives
\* the empty sequence.
C13_DecodeRows == IsDecodeOf(parseCSV(lineage, catsText), catsText)

\* C14: the custom list stays deduplicated against the base.  In every
\* reachable state, whatever the order of custom-ticker inputs and base
\* selections, customTickers has at most 3 entries and none of them is the
\* current baseTicker.
C14_CustomExcludesBase ==
  /\ Len(customTickers) <= 3
  /\ baseTicker \notin Range(customTickers)

====
